---- MODULE Spec2Model ----
(***************************************************************************)
(* Model of the Dell Redfish collector (src/main.py): the path navigator   *)
(* parse_json, the key-spec resolver extract_data, the sensor classifier   *)
(* of main(), the three normalizers format_psu / format_temp /             *)
(* format_sysboard and the two-phase pipeline of main(); and of the HTTP    *)
(* prober (src/prober-kubernetes.py): do_probe and its two metrics.        *)
(*                                                                         *)
(* Python values are modelled as tagged records, one field name per tag;   *)
(* None / JSON null / "absent" is JNull.  Python strings are TLA+ strings  *)
(* and are taken apart character by character with SubSeq.  A Python       *)
(* exception leaving a function is the value Raised.                       *)
(***************************************************************************)
EXTENDS Integers, Sequences, FiniteSets, TLC

VARIABLES
    \* main(): the pipeline
    pc,         \* position in main()
    reqIdx,     \* index into requests_list of the next system request
    buffer,     \* the output document being built
    sensors,    \* the member list of the sensor collection
    cursor,     \* index into sensors of the next member
    out,        \* the four buckets
    responses,  \* the HTTP responses received so far, in order, with their use
    log,        \* the warnings logged so far
    printed,    \* the documents written to stdout
    \* one call of parse_json
    navDoc, navPath, navResult, navPc,
    \* one pass of the classifier
    clsRec, clsOut, clsPc,
    \* one normalizer, applied once and then again to its own result
    normPass, normIn, normOut, normAgain, normPc,
    \* one call of extract_data on a parsed document
    exDoc, exKeys, exResult, exPc,
    \* the prober: do_probe and the metrics it updates
    PROBER_TOTAL,     \* the request counter, by scenario and code label
    PROBER_DURATION,  \* the number of duration observations, by scenario
    probeCalls,       \* the number of do_probe calls made so far
    probeLast         \* how the last do_probe call ended

mainVars == <<pc, reqIdx, buffer, sensors, cursor, out, responses, log, printed>>

navVars == <<navDoc, navPath, navResult, navPc>>

clsVars == <<clsRec, clsOut, clsPc>>

normVars == <<normPass, normIn, normOut, normAgain, normPc>>

exVars == <<exDoc, exKeys, exResult, exPc>>

probeVars == <<PROBER_TOTAL, PROBER_DURATION, probeCalls, probeLast>>

vars == <<mainVars, navVars, clsVars, normVars, exVars, probeVars>>

-----------------------------------------------------------------------------
(* Bounds of the model.                                                    *)

\* longest path (number of segments) handed to parse_json
MaxPathLen == 2

\* longest member list of a sensor collection
MaxMembers == 2

\* longest bucket handed to a normalizer
MaxRecords == 2

-----------------------------------------------------------------------------
(* Python str operations.                                                  *)

Char(s, i) == SubSeq(s, i, i)

Drop(s, n) == SubSeq(s, n + 1, Len(s))

Take(s, n) == SubSeq(s, 1, n)

\* str.startswith
StartsWith(s, p) == Len(p) <= Len(s) /\ Take(s, Len(p)) = p

\* str.endswith
EndsWith(s, p) == Len(p) <= Len(s) /\ Drop(s, Len(s) - Len(p)) = p

\* positions at which p occurs in s
Occurrences(s, p) == {i \in 1..(Len(s) - Len(p) + 1) : SubSeq(s, i, i + Len(p) - 1) = p}

\* the `in` operator on two strings
Contains(s, p) == Occurrences(s, p) # {}

Min(S) == CHOOSE x \in S : \A y \in S : x <= y

\* the element of a one-element set.  { e(x) : x \in {v} } evaluates v once
\* and names its value x: the way an intermediate result is bound below
Only(S) == CHOOSE x \in S : TRUE

\* str.split(sep) for a one-character separator: every occurrence splits,
\* so leading, trailing and doubled separators give empty parts
RECURSIVE SplitOn(_, _)
SplitOn(s, sep) ==
    IF ~Contains(s, sep) THEN <<s>>
    ELSE Only({ Only({ <<Take(s, i - 1)>> \o SplitOn(rest, sep) : rest \in {Drop(s, i)} })
                : i \in {Min(Occurrences(s, sep))} })

\* str.split(sep, 1): at most one split, at the first occurrence
SplitFirst(s, sep) ==
    IF ~Contains(s, sep) THEN <<s>>
    ELSE LET i == Min(Occurrences(s, sep))
         IN  <<Take(s, i - 1), Drop(s, i)>>

\* the mutated join: the separator follows every part, the last one too
RECURSIVE Join_TrailingSeparator(_)
Join_TrailingSeparator(parts) ==
    IF parts = <<>> THEN "" ELSE parts[1] \o " " \o Join_TrailingSeparator(Tail(parts))

\* " ".join(parts)
RECURSIVE Join(_)
Join(parts) ==
    IF parts = <<>> THEN ""
    ELSE IF Len(parts) = 1 THEN parts[1]
    ELSE parts[1] \o " " \o Join(Tail(parts))

UpperChars == <<"A", "B", "C", "D", "E", "F", "G", "H", "I", "J", "K", "L", "M",
                "N", "O", "P", "Q", "R", "S", "T", "U", "V", "W", "X", "Y", "Z">>

LowerChars == <<"a", "b", "c", "d", "e", "f", "g", "h", "i", "j", "k", "l", "m",
                "n", "o", "p", "q", "r", "s", "t", "u", "v", "w", "x", "y", "z">>

LowerChar(c) ==
    IF \E k \in 1..Len(UpperChars) : UpperChars[k] = c
    THEN LowerChars[CHOOSE k \in 1..Len(UpperChars) : UpperChars[k] = c]
    ELSE c

\* str.lower
RECURSIVE Lower(_)
Lower(s) == IF Len(s) = 0 THEN "" ELSE LowerChar(Char(s, 1)) \o Lower(Drop(s, 1))

Digits == <<"0", "1", "2", "3", "4", "5", "6", "7", "8", "9">>

IsDigit(c) == \E k \in 1..Len(Digits) : Digits[k] = c

DigitVal(c) == (CHOOSE k \in 1..Len(Digits) : Digits[k] = c) - 1

RECURSIVE DigitsVal(_, _)
DigitsVal(s, acc) ==
    IF Len(s) = 0 THEN acc ELSE DigitsVal(Drop(s, 1), 10 * acc + DigitVal(Char(s, 1)))

\* characters str.strip() and str.split() treat as whitespace
IsSpace(c) == c \in {" ", "\t"}

RECURSIVE LStrip(_)
LStrip(s) == IF Len(s) > 0 /\ IsSpace(Char(s, 1)) THEN LStrip(Drop(s, 1)) ELSE s

RECURSIVE RStrip(_)
RStrip(s) ==
    IF Len(s) > 0 /\ IsSpace(Char(s, Len(s))) THEN RStrip(Take(s, Len(s) - 1)) ELSE s

\* int(s): surrounding whitespace is stripped, one optional sign, then at
\* least one decimal digit; anything else is a ValueError (ok = FALSE)
ParseInt(s) ==
    LET body   == RStrip(LStrip(s))
        signed == Len(body) > 0 /\ Char(body, 1) \in {"+", "-"}
        digs   == IF signed THEN Drop(body, 1) ELSE body
        valid  == Len(digs) > 0 /\ \A i \in 1..Len(digs) : IsDigit(Char(digs, i))
    IN  IF ~valid THEN [ok |-> FALSE, v |-> 0]
        ELSE [ok |-> TRUE,
              v  |-> IF signed /\ Char(body, 1) = "-"
                     THEN 0 - DigitsVal(digs, 0) ELSE DigitsVal(digs, 0)]

-----------------------------------------------------------------------------
(* JSON values as Python holds them after json.loads.                      *)

JNull == [t |-> "null"]

JBool(b) == [t |-> "bool", b |-> b]

JNum(n) == [t |-> "num", n |-> n]

JStr(s) == [t |-> "str", s |-> s]

JList(q) == [t |-> "list", q |-> q]

\* f is a function from key strings to JSON values
JDict(f) == [t |-> "dict", d |-> f]

\* a Python exception propagating out of the modelled function
Raised == [t |-> "raise"]

\* dict.get(k): None when the key is missing
DictGet(f, k) == IF k \in DOMAIN f THEN f[k] ELSE JNull

-----------------------------------------------------------------------------
(* Dell.parse_json: the path navigator.                                    *)

\* Python subscription current[idx] with an int idx: lists and strings
\* accept -len <= idx < len (a negative idx counts from the end), a dict
\* of string keys has no int key (KeyError), None and scalars are not
\* subscriptable (TypeError)
Subscript(cur, idx) ==
    CASE cur.t = "list" ->
            IF 0 <= idx /\ idx < Len(cur.q) THEN cur.q[idx + 1]
            ELSE IF 0 - Len(cur.q) <= idx /\ idx < 0 THEN cur.q[Len(cur.q) + idx + 1]
            ELSE Raised
      [] cur.t = "str" ->
            IF 0 <= idx /\ idx < Len(cur.s) THEN JStr(Char(cur.s, idx + 1))
            ELSE IF 0 - Len(cur.s) <= idx /\ idx < 0
                 THEN JStr(Char(cur.s, Len(cur.s) + idx + 1))
            ELSE Raised
      [] OTHER -> Raised

\* the bracketed branch: key_part, idx_part = p[:-1].split("[", 1);
\* current = current.get(key_part); idx = int(idx_part); current = current[idx].
\* Only a dict has .get (AttributeError otherwise); int() may raise.
IndexedStep(current, p) ==
    LET parts    == SplitFirst(Take(p, Len(p) - 1), "[")
        key_part == parts[1]
        idx      == ParseInt(parts[2])
    IN  IF current.t # "dict" THEN Raised
        ELSE IF ~idx.ok THEN Raised
        ELSE Subscript(DictGet(current.d, key_part), idx.v)

\* the plain branch; its inner try turns a failed int(p) or a failed
\* current[idx] into `return None`.  ret = TRUE is an early return of val.
PlainStep(current, p) ==
    IF current.t = "dict" THEN [ret |-> FALSE, val |-> DictGet(current.d, p)]
    ELSE IF current.t = "list"
         THEN LET idx == ParseInt(p)
                  got == IF idx.ok THEN Subscript(current, idx.v) ELSE Raised
              IN  IF got = Raised THEN [ret |-> TRUE, val |-> JNull]
                  ELSE [ret |-> FALSE, val |-> got]
    ELSE [ret |-> TRUE, val |-> JNull]

\* the body of the outer try, without its handler
StepBody(current, p) ==
    IF EndsWith(p, "]") /\ Contains(p, "[")
    THEN [ret |-> FALSE, val |-> IndexedStep(current, p)]
    ELSE PlainStep(current, p)

\* the mutated loop body: the outer `except Exception: return None` is gone
Step_NoHandler(current, p) == StepBody(current, p)

\* one iteration of the loop body: the outer `except Exception: return None`
Step(current, p) ==
    Only({ IF r.val = Raised THEN [ret |-> TRUE, val |-> JNull] ELSE r
           : r \in {StepBody(current, p)} })

RECURSIVE parse_json(_, _)
parse_json(data, json_path) ==
    IF json_path = <<>> THEN data
    ELSE IF data.t = "null" THEN JNull
    ELSE Only({ IF r.ret \/ r.val = Raised THEN r.val
                ELSE parse_json(r.val, Tail(json_path))
                : r \in {Step(data, Head(json_path))} })

-----------------------------------------------------------------------------
(* Dell.extract_data: the key-spec resolver.  A Python dict with known     *)
(* keys (an extracted record, the output document) is a function from key  *)
(* strings to values.                                                      *)

EmptyDict == [k \in {} |-> JNull]

\* d[k] = v on a Python dict
DictSet(f, k, v) == (k :> v) @@ f

\* dict.get(k, default)
DictGetOr(f, k, default) == IF k \in DOMAIN f THEN f[k] ELSE default

\* json.loads on a response text: a text is either the serialisation of a
\* JSON value or not JSON at all (ValueError)
JsonText(doc) == [kind |-> "json", doc |-> doc]

Garbage == [kind |-> "garbage"]

json_loads(text) == IF text.kind = "json" THEN text.doc ELSE Raised

\* the three key-spec forms
KeyList(items) == [kind |-> "list", items |-> items]

KeyOne(name, path) == [kind |-> "dict", name |-> name, path |-> path]

KeyPath(path) == [kind |-> "str", path |-> path]

\* the loop over a list of {name, path} records, left to right
RECURSIVE ExtractList(_, _, _)
ExtractList(data, items, return_buffer) ==
    IF items = <<>> THEN return_buffer
    ELSE LET key == Head(items)
         IN  Only({ IF val = Raised THEN Raised
                    ELSE ExtractList(data, Tail(items), DictSet(return_buffer, key.name, val))
                    : val \in { IF key.path = "@odata.id"
                                THEN IF data.t = "dict" THEN DictGet(data.d, key.path)
                                     ELSE Raised
                                ELSE parse_json(data, SplitOn(key.path, ".")) } })

\* data is a parsed JSON value (skip_parse, or already parsed by the caller)
extract_parsed(data, keyspec) ==
    CASE keyspec.kind = "list" -> ExtractList(data, keyspec.items, EmptyDict)
      [] keyspec.kind = "dict" ->
            LET val == parse_json(data, SplitOn(keyspec.path, "."))
            IN  IF val = Raised THEN Raised ELSE (keyspec.name :> val)
      [] keyspec.kind = "str" -> parse_json(data, SplitOn(keyspec.path, "."))
      [] OTHER -> Raised

\* data is a response text: json.loads first, RuntimeError when it fails
extract_data(text, keyspec) ==
    Only({ IF data = Raised THEN Raised ELSE extract_parsed(data, keyspec)
           : data \in {json_loads(text)} })

-----------------------------------------------------------------------------
(* The sensor classifier of main().                                        *)

IsStr(x) == x.t = "str"

\* x == "literal" for a Python value x
StrEq(x, lit) == x.t = "str" /\ x.s = lit

Buckets == {"fan", "psu", "temperature", "sysBoard"}

EmptyOut == [b \in Buckets |-> <<>>]

\* the mutated chain: the ReadingType test comes before the PS/PowerSupply test
Classify_TemperatureFirst(parsed) ==
    LET reading_type == DictGet(parsed, "type")
        name         == DictGetOr(parsed, "name", JStr(""))
    IN  IF StrEq(reading_type, "Temperature") THEN "temperature"
        ELSE IF IsStr(name) /\ StartsWith(name.s, "PS")
                /\ StrEq(DictGet(parsed, "context"), "PowerSupply") THEN "psu"
        ELSE IF IsStr(name) /\ Contains(name.s, "Fan") /\ StrEq(reading_type, "Rotational")
             THEN "fan"
        ELSE IF IsStr(name) /\ Contains(name.s, "System Board")
                /\ StrEq(reading_type, "Percent") THEN "sysBoard"
        ELSE LET ctx == DictGetOr(parsed, "context", JStr(""))
             IN  IF StrEq(ctx, "PowerSupply") THEN "psu"
                 ELSE IF StrEq(ctx, "Chassis") THEN "sysBoard"
                 ELSE "discard"

\* the if/elif chain: the bucket the record is appended to, or "discard"
Classify(parsed) ==
    LET reading_type == DictGet(parsed, "type")
        name         == DictGetOr(parsed, "name", JStr(""))
    IN  IF IsStr(name) /\ StartsWith(name.s, "PS")
           /\ StrEq(DictGet(parsed, "context"), "PowerSupply") THEN "psu"
        ELSE IF StrEq(reading_type, "Temperature") THEN "temperature"
        ELSE IF IsStr(name) /\ Contains(name.s, "Fan") /\ StrEq(reading_type, "Rotational")
             THEN "fan"
        ELSE IF IsStr(name) /\ Contains(name.s, "System Board")
                /\ StrEq(reading_type, "Percent") THEN "sysBoard"
        ELSE LET ctx == DictGetOr(parsed, "context", JStr(""))
             IN  IF StrEq(ctx, "PowerSupply") THEN "psu"
                 ELSE IF StrEq(ctx, "Chassis") THEN "sysBoard"
                 ELSE "discard"

\* out[bucket].append(parsed), or nothing for a discarded record
ClassifyAppend(o, parsed) ==
    LET b == Classify(parsed)
    IN  IF b = "discard" THEN o ELSE [o EXCEPT ![b] = Append(@, parsed)]

-----------------------------------------------------------------------------
(* The normalizers.  Each takes a Python list of records (a sequence) and  *)
(* returns the new list as JList, or Raised when a str method is called on *)
(* a value that is not a str (AttributeError).                             *)

\* {"reading": obj.get("reading"), "health": obj.get("health")}
ReadingOf(obj) == JDict([reading |-> DictGet(obj, "reading"), health |-> DictGet(obj, "health")])

\* index of the first b in buf with b["name"] == psu_name, 0 when none
FirstNamed(buf, psu_name) ==
    LET hits == {i \in 1..Len(buf) : StrEq(buf[i]["name"], psu_name)}
    IN  IF hits = {} THEN 0 ELSE Min(hits)

\* one iteration of `for obj in psu_obj`: the new buf, or Raised
PsuStep(obj, found_power_supplies, buf) ==
    LET nameV == DictGetOr(obj, "name", JStr(""))
        typeV == DictGetOr(obj, "type", JStr(""))
    IN  IF ~IsStr(nameV) THEN Raised
        ELSE LET psu_name == SplitOn(nameV.s, " ")[1]
             IN  IF \A i \in 1..Len(found_power_supplies) :
                         found_power_supplies[i] # psu_name
                 THEN IF ~IsStr(typeV) THEN Raised
                      ELSE JList(Append(buf, DictSet("name" :> JStr(psu_name),
                                                     Lower(typeV.s), ReadingOf(obj))))
                 ELSE LET b == FirstNamed(buf, psu_name)
                      IN  IF b = 0 THEN JList(buf)
                          ELSE IF ~IsStr(typeV) THEN Raised
                          ELSE JList([buf EXCEPT ![b] =
                                         DictSet(@, Lower(typeV.s), ReadingOf(obj))])

\* found_power_supplies after the iteration: the name is appended when new
PsuFound(obj, found_power_supplies) ==
    LET psu_name == SplitOn(DictGetOr(obj, "name", JStr("")).s, " ")[1]
    IN  IF \A i \in 1..Len(found_power_supplies) : found_power_supplies[i] # psu_name
        THEN Append(found_power_supplies, psu_name)
        ELSE found_power_supplies

RECURSIVE PsuLoop(_, _, _)
PsuLoop(psu_obj, found_power_supplies, buf) ==
    IF psu_obj = <<>> THEN JList(buf)
    ELSE Only({ IF r = Raised THEN Raised
                ELSE Only({ PsuLoop(Tail(psu_obj), found, r.q)
                            : found \in {PsuFound(Head(psu_obj), found_power_supplies)} })
                : r \in {PsuStep(Head(psu_obj), found_power_supplies, buf)} })

format_psu(psu_obj) == PsuLoop(psu_obj, <<>>, <<>>)

\* parts[:-1]
AllButLast(parts) == SubSeq(parts, 1, Len(parts) - 1)

\* the loop body of format_temp on one record
TempTrimOne(obj) ==
    LET name == DictGetOr(obj, "name", JStr(""))
    IN  IF ~IsStr(name) THEN Raised
        ELSE LET parts == SplitOn(name.s, " ")
             IN  IF Len(parts) > 1 THEN DictSet(obj, "name", JStr(Join(AllButLast(parts))))
                 ELSE obj

\* for obj in temp_obj: each record is rewritten in place; the loop stops
\* at the first exception
RECURSIVE TempLoop(_)
TempLoop(objs) ==
    IF objs = <<>> THEN JList(<<>>)
    ELSE Only({ IF h = Raised THEN Raised
                ELSE Only({ IF rest = Raised THEN Raised ELSE JList(<<h>> \o rest.q)
                            : rest \in {TempLoop(Tail(objs))} })
                : h \in {TempTrimOne(Head(objs))} })

format_temp(temp_obj) == TempLoop(temp_obj)

remove == {"System", "Board", "Usage"}

\* [w for w in words if w not in remove]
RECURSIVE Keep(_)
Keep(words) ==
    IF words = <<>> THEN <<>>
    ELSE IF Head(words) \in remove THEN Keep(Tail(words))
    ELSE <<Head(words)>> \o Keep(Tail(words))

\* the loop body of format_sysboard on one record; `if buf:` is false
\* only for the empty list
SysTrimOne(obj) ==
    LET name == DictGetOr(obj, "name", JStr(""))
    IN  IF ~IsStr(name) THEN Raised
        ELSE LET buf == Keep(SplitOn(name.s, " "))
             IN  IF buf # <<>> THEN DictSet(obj, "name", JStr(Join(buf))) ELSE obj

\* for obj in sys_obj: each record is rewritten in place; the loop stops
\* at the first exception
RECURSIVE SysLoop(_)
SysLoop(objs) ==
    IF objs = <<>> THEN JList(<<>>)
    ELSE Only({ IF h = Raised THEN Raised
                ELSE Only({ IF rest = Raised THEN Raised ELSE JList(<<h>> \o rest.q)
                            : rest \in {SysLoop(Tail(objs))} })
                : h \in {SysTrimOne(Head(objs))} })

format_sysboard(sys_obj) == SysLoop(sys_obj)

-----------------------------------------------------------------------------
(* Inputs of the navigator specification.                                  *)

NavList == JList(<<JStr("x"), JStr("y")>>)

NavDocs ==
    { JNull, JBool(TRUE), JNum(7), JStr("ab"), NavList, JList(<<>>),
      JList(<<NavList>>),
      JDict("K" :> NavList),
      JDict("K" :> JStr("ab")),
      JDict("K" :> JDict("0" :> JStr("z"))),
      JDict("K" :> JList(<<>>)),
      JDict("K" :> JNull),
      JDict("K" :> JNum(7)),
      JDict("M" :> JDict("K" :> NavList) @@ "0" :> JStr("w")) }

NavSegs == { "K", "M", "Q", "K[0]", "K[1]", "K[2]", "K[-1]", "K[x]", "K[]", "Q[0]",
             "0", "1", "2", "-1", "x" }

RECURSIVE SeqsUpTo(_, _)
SeqsUpTo(S, n) ==
    IF n = 0 THEN {<<>>}
    ELSE LET shorter == SeqsUpTo(S, n - 1)
         IN  shorter \cup {Append(q, x) : q \in shorter, x \in S}

NavInit ==
    /\ navDoc \in NavDocs
    /\ navPath \in SeqsUpTo(NavSegs, MaxPathLen)
    /\ navResult = JNull
    /\ navPc = "call"

\* one call of parse_json(navDoc, navPath)
NavResolve ==
    /\ navPc = "call"
    /\ navResult' = parse_json(navDoc, navPath)
    /\ navPc' = "returned"
    /\ UNCHANGED <<navDoc, navPath>>

-----------------------------------------------------------------------------
(* main(): the pipeline after the parameters have validated.               *)

\* HttpClient.get raised: transport error or unexpected status
Fail == [kind |-> "fail"]

\* requests_list
requests_list ==
    << KeyList(<< [name |-> "model", path |-> "Model"],
                  [name |-> "serialnumber", path |-> "Oem.Dell.DellSystem.ChassisServiceTag"],
                  [name |-> "status", path |-> "Status.Health"] >>),
       KeyOne("firmware", "FirmwareVersion") >>

\* keys of the sensor discovery
keys ==
    KeyList(<< [name |-> "id", path |-> "Id"],
               [name |-> "name", path |-> "Name"],
               [name |-> "context", path |-> "PhysicalContext"],
               [name |-> "reading", path |-> "Reading"],
               [name |-> "type", path |-> "ReadingType"],
               [name |-> "health", path |-> "Status.Health"] >>)

\* dict.update(other): the keys of other win
DictUpdate(f, other) == other @@ f

\* Python truthiness, as used by `or`
Truthy(x) ==
    CASE x.t = "null" -> FALSE
      [] x.t = "bool" -> x.b
      [] x.t = "num"  -> x.n # 0
      [] x.t = "str"  -> Len(x.s) > 0
      [] x.t = "list" -> Len(x.q) > 0
      [] x.t = "dict" -> DOMAIN x.d # {}
      [] OTHER -> TRUE

\* a or b
Or(a, b) == IF Truthy(a) THEN a ELSE b

\* lines 250-266: the member list of the collection text, Raised for
\* "Unexpected type for sensors."
ResolveMembers(sensors_raw) ==
    LET loaded         == json_loads(sensors_raw)
        sensors_parsed == IF loaded = Raised THEN JNull ELSE loaded
        first          == IF sensors_parsed.t = "dict"
                          THEN Or(DictGet(sensors_parsed.d, "Members"),
                                  Or(DictGet(sensors_parsed.d, "members"), sensors_parsed))
                          ELSE JNull
        second         == IF first.t = "null"
                          THEN (IF loaded = Raised THEN JNull ELSE loaded)
                          ELSE first
    IN  IF second.t = "list" THEN second ELSE Raised

\* how a member is obtained: "fetch" (reference object or reference
\* string), "inline" (the member is the sensor object), "skip" (unknown type)
MemberKind(sensor) ==
    IF sensor.t = "dict"
       /\ ("@odata.id" \in DOMAIN sensor.d
           \/ ("Members" \in DOMAIN sensor.d /\ sensor.d["Members"].t = "list"))
    THEN IF "@odata.id" \in DOMAIN sensor.d THEN "fetch" ELSE "inline"
    ELSE IF sensor.t = "str" THEN "fetch"
    ELSE IF sensor.t = "dict" THEN "inline"
    ELSE "skip"

\* the api_path of a member that is fetched
MemberPath(sensor) == IF sensor.t = "dict" THEN sensor.d["@odata.id"] ELSE sensor

\* except-clause of the whole discovery (lines 348-352)
SensorsFailed_Reset(buf) == EmptyDict

SensorsFailed(buf) == IF buf = EmptyDict THEN EmptyDict ELSE buf

\* the mutated `continue` of a failed fetch: the loop ends
AfterSkip_Break(i, n) == n + 1

\* `continue`: the loop goes on with the next member
AfterSkip(i, n) == i + 1

MainInit ==
    /\ pc = "system"
    /\ reqIdx = 1
    /\ buffer = EmptyDict
    /\ sensors = <<>>
    /\ cursor = 1
    /\ out = EmptyOut
    /\ responses = <<>>
    /\ log = <<>>
    /\ printed = <<>>

\* one iteration of `for req in requests_list` (lines 232-238)
SystemRequest(resp) ==
    /\ pc = "system"
    /\ \E extracted \in { IF resp = Fail THEN Raised
                           ELSE extract_data(resp, requests_list[reqIdx]) } :
           IF extracted = Raised
           THEN /\ buffer' = buffer
                /\ log' = Append(log, "Request failed")
           ELSE /\ buffer' = DictUpdate(buffer, extracted)
                /\ log' = log
    /\ responses' = Append(responses, [for |-> "system", n |-> reqIdx, resp |-> resp])
    /\ reqIdx' = reqIdx + 1
    /\ pc' = IF reqIdx = Len(requests_list) THEN "sensors" ELSE "system"
    /\ UNCHANGED <<sensors, cursor, out, printed>>

\* lines 247-277: fetch the collection and recognise its member list
FetchSensors(resp) ==
    /\ pc = "sensors"
    /\ responses' = Append(responses, [for |-> "collection", n |-> 0, resp |-> resp])
    /\ \E got \in {IF resp = Fail THEN Raised ELSE ResolveMembers(resp)} :
           IF got = Raised
           THEN /\ buffer' = SensorsFailed(buffer)
                /\ log' = Append(log, "Sensors discovery failed")
                /\ pc' = "print"
                /\ UNCHANGED <<sensors, cursor, out>>
           ELSE /\ sensors' = got.q
                /\ cursor' = 1
                /\ out' = EmptyOut
                /\ pc' = "loop"
                /\ UNCHANGED <<buffer, log>>
    /\ UNCHANGED <<reqIdx, printed>>

\* lines 310-336 for one sensor object
ExtractAndClassify(sensor_obj) ==
    \E parsed \in {extract_parsed(sensor_obj, keys)} :
        IF parsed = Raised
        THEN /\ log' = Append(log, "Failed to parse sensor object")
             /\ out' = out
        ELSE /\ out' = ClassifyAppend(out, parsed)
             /\ log' = log

\* one iteration of `for sensor in sensors` for a member that needs no fetch
ProcessInline ==
    /\ pc = "loop"
    /\ cursor <= Len(sensors)
    /\ MemberKind(sensors[cursor]) # "fetch"
    /\ IF MemberKind(sensors[cursor]) = "skip"
       THEN /\ log' = Append(log, "Unknown sensor entry type")
            /\ out' = out
       ELSE ExtractAndClassify(sensors[cursor])
    /\ cursor' = cursor + 1
    /\ UNCHANGED <<pc, reqIdx, buffer, sensors, responses, printed>>

\* one iteration for a reference object or reference string: one GET; a
\* path that is not a str makes execute_request raise before any request
ProcessReference(resp) ==
    /\ pc = "loop"
    /\ cursor <= Len(sensors)
    /\ MemberKind(sensors[cursor]) = "fetch"
    /\ LET path       == MemberPath(sensors[cursor])
           sensor_obj == IF ~IsStr(path) \/ resp = Fail THEN Raised ELSE json_loads(resp)
       IN  /\ responses' = IF IsStr(path)
                           THEN Append(responses, [for |-> "member", n |-> cursor, resp |-> resp])
                           ELSE responses
           /\ IF sensor_obj = Raised
              THEN /\ log' = Append(log, "Failed to fetch sensor")
                   /\ out' = out
                   /\ cursor' = AfterSkip(cursor, Len(sensors))
              ELSE /\ ExtractAndClassify(sensor_obj)
                   /\ cursor' = cursor + 1
    /\ UNCHANGED <<pc, reqIdx, buffer, sensors, printed>>

\* lines 338-346 after the loop: the three normalizers, then the merge; an
\* exception in any of them is caught by the except-clause of the discovery
Normalize ==
    /\ pc = "loop"
    /\ cursor > Len(sensors)
    /\ \E psu \in {format_psu(out["psu"])} :
       \E temp \in {IF psu = Raised THEN Raised ELSE format_temp(out["temperature"])} :
       \E sys \in {IF temp = Raised THEN Raised ELSE format_sysboard(out["sysBoard"])} :
           IF sys = Raised
           THEN /\ buffer' = SensorsFailed(buffer)
                /\ log' = Append(log, "Sensors discovery failed")
                /\ out' = out
           ELSE /\ out' = [out EXCEPT !["psu"] = psu.q, !["temperature"] = temp.q,
                                      !["sysBoard"] = sys.q]
                /\ buffer' = DictUpdate(buffer,
                                 [b \in Buckets |->
                                     JList(CASE b = "psu" -> psu.q
                                             [] b = "temperature" -> temp.q
                                             [] b = "sysBoard" -> sys.q
                                             [] OTHER -> out[b])])
                /\ log' = log
    /\ pc' = "print"
    /\ UNCHANGED <<reqIdx, sensors, cursor, responses, printed>>

\* line 355: print(json.dumps(buffer))
EmitDocument ==
    /\ pc = "print"
    /\ printed' = Append(printed, buffer)
    /\ pc' = "done"
    /\ UNCHANGED <<reqIdx, buffer, sensors, cursor, out, responses, log>>

-----------------------------------------------------------------------------
(* The environment of main(): what the remote API may answer.              *)

\* a sensor object as the API returns it
Sensor(name, context, type, reading) ==
    JDict("Name" :> name @@ "PhysicalContext" :> context @@ "ReadingType" :> type
          @@ "Reading" :> JNum(reading) @@ "Status" :> JDict("Health" :> JStr("OK")))

SystemDoc ==
    JDict("Model" :> JStr("R740")
          @@ "Oem" :> JDict("Dell" :> JDict("DellSystem" :>
                          JDict("ChassisServiceTag" :> JStr("TAG1"))))
          @@ "Status" :> JDict("Health" :> JStr("OK")))

ManagerDoc == JDict("FirmwareVersion" :> JStr("4.40"))

SystemResponses == <<{Fail, Garbage, JsonText(SystemDoc)}, {Fail, Garbage, JsonText(ManagerDoc)}>>

RefObject == JDict("@odata.id" :> JStr("/redfish/v1/Chassis/System.Embedded.1/Sensors/1"))

RefString == JStr("/redfish/v1/Chassis/System.Embedded.1/Sensors/2")

\* members a collection may list
MemberCandidates ==
    { Sensor(JStr("PS1 Voltage"), JStr("PowerSupply"), JStr("Voltage"), 12),
      Sensor(JStr("Inlet Temp"), JStr("SystemBoard"), JStr("Temperature"), 21),
      Sensor(JStr("System Board Fan1"), JStr("Fan"), JStr("Rotational"), 4800),
      Sensor(JStr("System Board CPU Usage"), JStr("Chassis"), JStr("Percent"), 3),
      Sensor(JStr("Intrusion"), JStr("SystemBoard"), JStr("Voltage"), 0),
      Sensor(JNull, JStr("CPU"), JStr("Temperature"), 40),
      RefObject,
      RefString,
      JNum(7) }

\* sensor documents a follow-up fetch may return
FetchedSensors ==
    { Sensor(JStr("PS1 Current"), JStr("PowerSupply"), JStr("Current"), 15),
      Sensor(JStr("CPU1 Temp"), JStr("CPU"), JStr("Temperature"), 45) }

MemberResponses == {Fail, Garbage} \cup {JsonText(d) : d \in FetchedSensors}

MemberLists == SeqsUpTo(MemberCandidates, MaxMembers)

SampleList == <<Sensor(JStr("System Board Fan1"), JStr("Fan"), JStr("Rotational"), 4800), RefString>>

\* answers to the collection request: the three recognised shapes, and
\* texts in which no member list is recognised
CollectionResponses ==
    {JsonText(JDict("Members" :> JList(m))) : m \in MemberLists}
    \cup { JsonText(JDict("members" :> JList(SampleList))),
           JsonText(JDict("Members" :> JList(<<>>) @@ "members" :> JList(SampleList))),
           JsonText(JList(SampleList)),
           JsonText(JDict("Name" :> JStr("Sensors"))),
           JsonText(JStr("busy")),
           Garbage,
           Fail }

-----------------------------------------------------------------------------
(* Specification of the pipeline.                                          *)

NavIdle == navDoc = JNull /\ navPath = <<>> /\ navResult = JNull /\ navPc = "idle"

ClsIdle == clsRec = EmptyDict /\ clsOut = EmptyOut /\ clsPc = "idle"

NormIdle ==
    /\ normPass = "none"
    /\ normIn = <<>>
    /\ normOut = JNull
    /\ normAgain = JNull
    /\ normPc = "idle"

ExIdle == exDoc = JNull /\ exKeys = KeyPath("") /\ exResult = JNull /\ exPc = "idle"

ProbeIdle ==
    /\ PROBER_TOTAL = [l \in {} |-> 0]
    /\ PROBER_DURATION = [l \in {} |-> 0]
    /\ probeCalls = 0
    /\ probeLast = "idle"

MainIdle ==
    /\ pc = "idle"
    /\ reqIdx = 1
    /\ buffer = EmptyDict
    /\ sensors = <<>>
    /\ cursor = 1
    /\ out = EmptyOut
    /\ responses = <<>>
    /\ log = <<>>
    /\ printed = <<>>

Init == MainInit /\ NavIdle /\ ClsIdle /\ NormIdle /\ ExIdle /\ ProbeIdle

Next ==
    \/ pc = "system" /\ \E resp \in SystemResponses[reqIdx] : SystemRequest(resp) /\ UNCHANGED <<navVars, clsVars, normVars, exVars, probeVars>>
    \/ \E resp \in CollectionResponses : FetchSensors(resp) /\ UNCHANGED <<navVars, clsVars, normVars, exVars, probeVars>>
    \/ ProcessInline /\ UNCHANGED <<navVars, clsVars, normVars, exVars, probeVars>>
    \/ \E resp \in MemberResponses : ProcessReference(resp) /\ UNCHANGED <<navVars, clsVars, normVars, exVars, probeVars>>
    \/ Normalize /\ UNCHANGED <<navVars, clsVars, normVars, exVars, probeVars>>
    \/ EmitDocument /\ UNCHANGED <<navVars, clsVars, normVars, exVars, probeVars>>

Spec == Init /\ [][Next]_vars

-----------------------------------------------------------------------------
(* Specification of the navigator: parse_json on one document and path.    *)

InitNav == NavInit /\ MainIdle /\ ClsIdle /\ NormIdle /\ ExIdle /\ ProbeIdle

NextNav == NavResolve /\ UNCHANGED <<mainVars, clsVars, normVars, exVars, probeVars>>

SpecNav == InitNav /\ [][NextNav]_vars

\* whether segment p has the bracketed form the navigator recognises
Bracketed(p) == EndsWith(p, "]") /\ Contains(p, "[")

\* the key a segment looks up: K for K[i], the segment itself otherwise
SegmentKey(p) == IF Bracketed(p) THEN SplitFirst(Take(p, Len(p) - 1), "[")[1] ELSE p

\* the first segment addresses something that is in the document: a key of
\* a mapping, or a position of a sequence
SegmentExists(doc, p) ==
    \/ doc.t = "dict" /\ SegmentKey(p) \in DOMAIN doc.d
    \/ /\ doc.t = "list"
       /\ ~Bracketed(p)
       /\ ParseInt(p).ok
       /\ 0 - Len(doc.q) <= ParseInt(p).v
       /\ ParseInt(p).v < Len(doc.q)

IndexedExpected(target, idxText) ==
    LET i == ParseInt(idxText)
    IN  IF target.t = "list" /\ i.ok /\ 0 <= i.v /\ i.v < Len(target.q)
        THEN target.q[i.v + 1]
        ELSE JNull

\* C4: an indexed segment yields the element at position i only for a
\* sequence and 0 <= i < length; absent when i is past the end, when the
\* index is no non-negative integer (K[-1], or a bare -1 on a sequence) and
\* when the value under K is no sequence (a string, a mapping).
C4_IndexOnlyInRange ==
    (navPc = "returned" /\ Len(navPath) = 1) =>
        LET p == navPath[1]
        IN  /\ (Bracketed(p) /\ navDoc.t = "dict") =>
                  navResult = IndexedExpected(DictGet(navDoc.d, SegmentKey(p)),
                                              SplitFirst(Take(p, Len(p) - 1), "[")[2])
            /\ (~Bracketed(p) /\ navDoc.t = "list") =>
                  navResult = IndexedExpected(navDoc, p)

-----------------------------------------------------------------------------
(* Specification of the classifier: one extracted record is classified.    *)

\* an extracted sensor record: the mapping extract_data builds from `keys`
Rec(name, context, type, reading) ==
    [id |-> JNull, name |-> name, context |-> context, reading |-> JNum(reading),
     type |-> type, health |-> JStr("OK")]

ClsNames ==
    { JStr("PS1 Voltage"), JStr("PS"), JStr("P"), JStr("XPS1"), JStr("Fan1"),
      JStr("System Board Fan2"), JStr("System Board CPU Usage"), JStr("System  Board"),
      JStr("Inlet Temp"), JStr("fan"), JStr(""), JNull, JNum(5) }

ClsContexts == { JStr("PowerSupply"), JStr("Chassis"), JStr("Fan"), JStr("powersupply"), JNull }

ClsTypes == { JStr("Temperature"), JStr("Rotational"), JStr("Percent"), JStr("Voltage"), JNull }

InitClassify ==
    /\ clsRec \in {Rec(n, c, t, 1) : n \in ClsNames, c \in ClsContexts, t \in ClsTypes}
    /\ clsOut = EmptyOut
    /\ clsPc = "call"
    /\ MainIdle /\ NavIdle /\ NormIdle /\ ExIdle /\ ProbeIdle

\* lines 316-336 on clsRec
ClassifyOne ==
    /\ clsPc = "call"
    /\ clsOut' = ClassifyAppend(clsOut, clsRec)
    /\ clsPc' = "done"
    /\ UNCHANGED clsRec

NextClassify == ClassifyOne /\ UNCHANGED <<mainVars, navVars, normVars, exVars, probeVars>>

SpecClassify == InitClassify /\ [][NextClassify]_vars

\* the ordered rule table of the claim: <<condition, bucket>>
RuleTable(r) ==
    << <<IsStr(r.name) /\ StartsWith(r.name.s, "PS") /\ StrEq(r.context, "PowerSupply"), "psu">>,
       <<StrEq(r.type, "Temperature"), "temperature">>,
       <<IsStr(r.name) /\ Contains(r.name.s, "Fan") /\ StrEq(r.type, "Rotational"), "fan">>,
       <<IsStr(r.name) /\ Contains(r.name.s, "System Board") /\ StrEq(r.type, "Percent"),
         "sysBoard">>,
       <<StrEq(r.context, "PowerSupply"), "psu">>,
       <<StrEq(r.context, "Chassis"), "sysBoard">>,
       <<TRUE, "discard">> >>

\* the bucket of the first rule that matches
FirstMatch(r) ==
    LET rules == RuleTable(r)
    IN  rules[Min({k \in 1..Len(rules) : rules[k][1]})][2]

\* C1: the classifier is first-match-wins over the ordered rules 1..6: the
\* record lands in exactly the bucket of the first matching rule, once, and
\* in no other bucket; a discarded record lands in none.
C1_FirstMatchWins ==
    clsPc = "done" =>
        \A b \in Buckets :
            clsOut[b] = IF b = FirstMatch(clsRec) THEN <<clsRec>> ELSE <<>>

\* C1 witness: a classified record that satisfies rule 1, rule 2 and the
\* rule 5 fallback at once and sits in psu
C1_Witness ==
    /\ clsPc = "done"
    /\ RuleTable(clsRec)[1][1]
    /\ RuleTable(clsRec)[2][1]
    /\ RuleTable(clsRec)[5][1]
    /\ clsOut["psu"] = <<clsRec>>

-----------------------------------------------------------------------------
(* Specification of the normalizers: one pass on one bucket, then the same *)
(* pass on its own result.                                                 *)

\* records the classifier can put into the buckets that are normalized
NormCandidates ==
    { Rec(JStr("PS1 Voltage"), JStr("PowerSupply"), JStr("Voltage"), 1),
      Rec(JStr("PS1 Voltage"), JStr("PowerSupply"), JStr("Voltage"), 2),
      Rec(JStr("PS1 Current"), JStr("PowerSupply"), JStr("Current"), 3),
      Rec(JStr("PS2 Voltage"), JStr("PowerSupply"), JStr("voltage"), 4),
      Rec(JStr("PS1\tVoltage"), JStr("PowerSupply"), JStr("Voltage"), 5),
      Rec(JStr(" PS1 Aux"), JStr("PowerSupply"), JStr("Voltage"), 6),
      Rec(JStr("PS1 Name"), JStr("PowerSupply"), JStr("Name"), 7),
      Rec(JStr("PS2 Status"), JStr("PowerSupply"), JNull, 8),
      Rec(JNull, JStr("PowerSupply"), JStr("Voltage"), 9),
      Rec(JStr("Inlet Temp"), JStr("SystemBoard"), JStr("Temperature"), 21),
      Rec(JStr("CPU1"), JStr("CPU"), JStr("Temperature"), 22),
      Rec(JStr("Inlet  Temp"), JStr("SystemBoard"), JStr("Temperature"), 23),
      Rec(JStr("CPU1 "), JStr("CPU"), JStr("Temperature"), 24),
      Rec(JStr("Inlet\tTemp"), JStr("SystemBoard"), JStr("Temperature"), 25),
      Rec(JStr("CPU 2 Temp"), JStr("CPU"), JStr("Temperature"), 26),
      Rec(JNull, JStr("CPU"), JStr("Temperature"), 27),
      Rec(JStr("System Board Usage"), JStr("SystemBoard"), JStr("Percent"), 31),
      Rec(JStr("System Board CPU Usage"), JStr("SystemBoard"), JStr("Percent"), 32),
      Rec(JStr("System Board "), JStr("SystemBoard"), JStr("Percent"), 33),
      Rec(JStr("CPU Usage"), JStr("Chassis"), JStr("Percent"), 34),
      Rec(JStr("System  Board"), JStr("Chassis"), JStr("Voltage"), 35),
      Rec(JStr("Intrusion"), JStr("Chassis"), JStr("Voltage"), 36),
      Rec(JNull, JStr("Chassis"), JStr("Voltage"), 37) }

NormPasses == {"psu", "temperature", "sysBoard"}

\* the pass of main() lines 338-340 for a bucket
ApplyPass(pass, objs) ==
    CASE pass = "psu" -> format_psu(objs)
      [] pass = "temperature" -> format_temp(objs)
      [] pass = "sysBoard" -> format_sysboard(objs)

InitNorm ==
    /\ normPass \in NormPasses
    /\ normIn \in SeqsUpTo({r \in NormCandidates : Classify(r) = normPass}, MaxRecords)
    /\ normOut = JNull
    /\ normAgain = JNull
    /\ normPc = "call"
    /\ MainIdle /\ NavIdle /\ ClsIdle /\ ExIdle /\ ProbeIdle

\* out['psu'] = format_psu(out['psu'])
ApplyPsu ==
    /\ normPc = "call"
    /\ normPass = "psu"
    /\ normOut' = format_psu(normIn)
    /\ normPc' = "once"
    /\ UNCHANGED <<normPass, normIn, normAgain>>

\* out['temperature'] = format_temp(out['temperature'])
ApplyTemp ==
    /\ normPc = "call"
    /\ normPass = "temperature"
    /\ normOut' = format_temp(normIn)
    /\ normPc' = "once"
    /\ UNCHANGED <<normPass, normIn, normAgain>>

\* out['sysBoard'] = format_sysboard(out['sysBoard'])
ApplySysboard ==
    /\ normPc = "call"
    /\ normPass = "sysBoard"
    /\ normOut' = format_sysboard(normIn)
    /\ normPc' = "once"
    /\ UNCHANGED <<normPass, normIn, normAgain>>

\* the same pass again, on the list the first application returned
Reapply ==
    /\ normPc = "once"
    /\ normOut # Raised
    /\ normAgain' = ApplyPass(normPass, normOut.q)
    /\ normPc' = "twice"
    /\ UNCHANGED <<normPass, normIn, normOut>>

NextNorm ==
    \/ ApplyPsu /\ UNCHANGED <<mainVars, navVars, clsVars, exVars, probeVars>>
    \/ ApplyTemp /\ UNCHANGED <<mainVars, navVars, clsVars, exVars, probeVars>>
    \/ ApplySysboard /\ UNCHANGED <<mainVars, navVars, clsVars, exVars, probeVars>>
    \/ Reapply /\ UNCHANGED <<mainVars, navVars, clsVars, exVars, probeVars>>

SpecNorm == InitNorm /\ [][NextNorm]_vars

-----------------------------------------------------------------------------
(* The claims about the normalizers.                                       *)

\* the whitespace-delimited tokens of a name: maximal runs of characters
\* that are not whitespace (what the claims call its tokens)
RECURSIVE WsTokens(_)
WsTokens(s) ==
    LET t == LStrip(s)
    IN  IF Len(t) = 0 THEN <<>>
        ELSE LET stops == {i \in 1..Len(t) : IsSpace(Char(t, i))}
                 n     == IF stops = {} THEN Len(t) ELSE Min(stops) - 1
             IN  <<Take(t, n)>> \o WsTokens(Drop(t, n))

FirstToken(s) == IF WsTokens(s) = <<>> THEN "" ELSE WsTokens(s)[1]

AllStrings(objs, field) == \A i \in 1..Len(objs) : IsStr(objs[i][field])

Max(S) == CHOOSE x \in S : \A y \in S : x >= y

\* the record the claim C2 gives the group of token tk: its name, and per
\* lowercased type the reading of the last record of the group with that type
GroupRecord(objs, tk) ==
    LET members == {i \in 1..Len(objs) : FirstToken(objs[i]["name"].s) = tk}
        types   == {Lower(objs[i]["type"].s) : i \in members}
    IN  [k \in {"name"} \cup types |->
            IF k = "name" THEN JStr(tk)
            ELSE ReadingOf(objs[Max({i \in members : Lower(objs[i]["type"].s) = k})])]

\* the positions at which a token is met for the first time
FirstMeetings(objs) ==
    {i \in 1..Len(objs) :
        \A j \in 1..(i - 1) : FirstToken(objs[j]["name"].s) # FirstToken(objs[i]["name"].s)}

\* C2: format_psu returns, for psu records whose name and type are strings,
\* one record per distinct first whitespace-delimited token of name, in
\* first-encounter order, with name = token and per lowercased type the
\* {reading, health} of the last record of the group.
C2_PsuMerge ==
    (normPass = "psu" /\ normPc # "call"
        /\ AllStrings(normIn, "name") /\ AllStrings(normIn, "type")) =>
        /\ normOut # Raised
        /\ Len(normOut.q) = Cardinality(FirstMeetings(normIn))
        /\ \A k \in 1..Len(normOut.q) :
              \E i \in FirstMeetings(normIn) :
                  /\ Cardinality({j \in FirstMeetings(normIn) : j <= i}) = k
                  /\ normOut.q[k] = GroupRecord(normIn, FirstToken(normIn[i]["name"].s))

\* the name of a record of a normalizer's result
NameOf(obj) == obj["name"]

\* C10: format_temp drops the final whitespace-delimited token of a name of
\* more than one token and leaves a single-token name unchanged, whatever
\* whitespace separates the tokens.
C10_TempTrim ==
    (normPass = "temperature" /\ normPc # "call" /\ AllStrings(normIn, "name")) =>
        /\ normOut # Raised
        /\ Len(normOut.q) = Len(normIn)
        /\ \A i \in 1..Len(normIn) :
              LET tokens == WsTokens(normIn[i]["name"].s)
              IN  NameOf(normOut.q[i]) =
                      IF Len(tokens) > 1 THEN JStr(Join(AllButLast(tokens)))
                      ELSE normIn[i]["name"]

\* C9: format_sysboard sets each name to its whitespace tokens without
\* System / Board / Usage, rejoined; keeps the original name when every
\* token is a stopword; never turns a non-empty name into an empty one;
\* changes no other field and no order.
C9_SysboardTrim ==
    (normPass = "sysBoard" /\ normPc # "call" /\ AllStrings(normIn, "name")) =>
        /\ normOut # Raised
        /\ Len(normOut.q) = Len(normIn)
        /\ \A i \in 1..Len(normIn) :
              LET kept == Keep(WsTokens(normIn[i]["name"].s))
              IN  /\ NameOf(normOut.q[i]) =
                        IF kept = <<>> THEN normIn[i]["name"] ELSE JStr(Join(kept))
                  /\ normIn[i]["name"].s # "" => NameOf(normOut.q[i]).s # ""
                  /\ \A f \in DOMAIN normIn[i] \ {"name"} : normOut.q[i][f] = normIn[i][f]

\* a name the pass has nothing left to remove from: for the temperature
\* trim a name without a space, for the system-board trim a name none of
\* whose space-separated parts is a stopword
Settled(pass, name) ==
    CASE pass = "temperature" -> ~Contains(name.s, " ")
      [] pass = "sysBoard" -> \A k \in 1..Len(SplitOn(name.s, " ")) :
                                   SplitOn(name.s, " ")[k] \notin remove
      [] OTHER -> IsStr(name) /\ ~Contains(name.s, " ")

AllSettled == \A i \in 1..Len(normOut.q) : Settled(normPass, NameOf(normOut.q[i]))

-----------------------------------------------------------------------------
(* The claims about the pipeline.                                          *)

\* the responses received for a purpose: "system" n, "collection" 0, "member" n
ResponsesFor(kind, n) ==
    {k \in 1..Len(responses) : responses[k].for = kind /\ responses[k].n = n}

ResponseFor(kind, n) == responses[Min(ResponsesFor(kind, n))].resp

IsJson(resp) == resp.kind = "json"

\* whether member i yields a sensor object: an inline object, or a
\* reference whose fetch and JSON parse succeeded
MemberYields(i) ==
    CASE MemberKind(sensors[i]) = "inline" -> TRUE
      [] MemberKind(sensors[i]) = "fetch" ->
            ResponsesFor("member", i) # {} /\ IsJson(ResponseFor("member", i))
      [] OTHER -> FALSE

\* the record of member i (for a member that yields an object)
MemberRecord(i) ==
    IF MemberKind(sensors[i]) = "inline" THEN extract_parsed(sensors[i], keys)
    ELSE extract_parsed(ResponseFor("member", i).doc, keys)

\* the records of the members 1..n that yield an object and that the rule
\* table puts into bucket b, in document order
RECURSIVE BucketOf(_, _)
BucketOf(b, n) ==
    IF n = 0 THEN <<>>
    ELSE IF MemberYields(n) /\ FirstMatch(MemberRecord(n)) = b
         THEN Append(BucketOf(b, n - 1), MemberRecord(n))
         ELSE BucketOf(b, n - 1)

\* C5: per-member failure isolation.  While the member loop runs and when it
\* has ended, each bucket holds exactly the records of the processed members
\* that yielded an object and are classifiable, in document order; a member
\* that is fetched is fetched exactly once (no retry), whether the fetch
\* failed or not, and the loop passes every member.
C5_MemberIsolation ==
    pc = "loop" =>
        /\ cursor <= Len(sensors) + 1
        /\ \A i \in 1..Len(sensors) :
              Cardinality(ResponsesFor("member", i)) =
                  IF i < cursor /\ MemberKind(sensors[i]) = "fetch" /\ IsStr(MemberPath(sensors[i]))
                  THEN 1 ELSE 0
        /\ \A b \in Buckets : out[b] = BucketOf(b, cursor - 1)

\* C5 witness: the loop has ended on two members; the first is a reference
\* string whose fetch failed, the second was classified into a bucket
C5_Witness ==
    /\ pc = "loop"
    /\ Len(sensors) = 2
    /\ cursor = 3
    /\ sensors[1] = RefString
    /\ ResponseFor("member", 1) = Fail
    /\ \E b \in Buckets : Len(out[b]) = 1

\* C6: when the collection yields a member list and every member fetch
\* succeeds, the discovery runs through normalizers and merge whatever the
\* members' Name, ReadingType and PhysicalContext are, and the printed
\* document has the four bucket keys.
C6_NoAbort ==
    (/\ pc = "done"
     /\ ResponsesFor("collection", 0) # {}
     /\ ResponseFor("collection", 0) # Fail
     /\ ResolveMembers(ResponseFor("collection", 0)) # Raised
     /\ \A i \in 1..Len(sensors) :
           MemberKind(sensors[i]) = "fetch" => MemberYields(i))
    => Buckets \subseteq DOMAIN printed[1]

\* the field names a system request contributes
RequestNames(n) ==
    IF requests_list[n].kind = "list"
    THEN {requests_list[n].items[k].name : k \in 1..Len(requests_list[n].items)}
    ELSE {requests_list[n].name}

\* the path of a field of a system request
RequestPath(n, name) ==
    IF requests_list[n].kind = "list"
    THEN (CHOOSE item \in {requests_list[n].items[k] : k \in 1..Len(requests_list[n].items)} :
              item.name = name).path
    ELSE requests_list[n].path

DiscoveryFailed == \E k \in 1..Len(log) : log[k] = "Sensors discovery failed"

\* C7: the two phases are independent and merged.  A finished run has
\* printed exactly one document; it holds the fields of every system
\* request that succeeded, whatever became of the other request and of the
\* discovery, and no field of a request that failed; the discovery was
\* attempted whatever became of the system requests, and it contributes its
\* four buckets when it succeeds and nothing when it fails; the document is
\* empty when every phase failed.
C7_PhasesIndependent ==
    /\ Len(printed) <= 1
    /\ pc = "done" =>
        /\ Len(printed) = 1
        /\ ResponsesFor("collection", 0) # {}
        /\ \A n \in 1..Len(requests_list) : \A name \in RequestNames(n) :
              IF IsJson(ResponseFor("system", n))
              THEN /\ name \in DOMAIN printed[1]
                   /\ printed[1][name] = parse_json(ResponseFor("system", n).doc,
                                                    SplitOn(RequestPath(n, name), "."))
              ELSE name \notin DOMAIN printed[1]
        /\ \A b \in Buckets :
              IF DiscoveryFailed THEN b \notin DOMAIN printed[1]
              ELSE b \in DOMAIN printed[1] /\ printed[1][b] = JList(out[b])
        /\ ((\A n \in 1..Len(requests_list) : ~IsJson(ResponseFor("system", n)))
            /\ DiscoveryFailed) => printed[1] = EmptyDict

\* C7 witness: a finished run in which the first system request failed, the
\* second succeeded and the discovery failed after members had been
\* classified: the document is exactly the second request's field
C7_Witness ==
    /\ pc = "done"
    /\ ResponseFor("system", 1) = Fail
    /\ IsJson(ResponseFor("system", 2))
    /\ DiscoveryFailed
    /\ Len(sensors) > 0
    /\ printed = << [firmware |-> JStr("4.40")] >>

\* the member list the collection document stands for: the sequence under
\* 'Members', or else the sequence under 'members', or else the document
\* itself when it is a sequence; Raised when there is none
StatedMembers(doc) ==
    IF doc.t = "dict" /\ DictGet(doc.d, "Members").t = "list" THEN DictGet(doc.d, "Members")
    ELSE IF doc.t = "dict" /\ DictGet(doc.d, "members").t = "list" THEN DictGet(doc.d, "members")
    ELSE IF doc.t = "list" THEN doc
    ELSE Raised

\* C12: member-list recognition.  Once the collection has been answered by
\* a document that has a member list, the members processed are exactly its
\* entries in order, whatever its length; and a finished run over an empty
\* member list has printed the four bucket keys, each an empty sequence.
C12_MemberList ==
    (/\ ResponsesFor("collection", 0) # {}
     /\ IsJson(ResponseFor("collection", 0))
     /\ StatedMembers(ResponseFor("collection", 0).doc) # Raised)
    => /\ sensors = StatedMembers(ResponseFor("collection", 0).doc).q
       /\ (pc = "done" /\ StatedMembers(ResponseFor("collection", 0).doc).q = <<>>) =>
              \A b \in Buckets :
                  b \in DOMAIN printed[1] /\ printed[1][b] = JList(<<>>)

-----------------------------------------------------------------------------
(* Specification of the key-spec resolver: extract_data on one parsed      *)
(* document (skip_parse) and one key spec.                                 *)

\* most {name, path} records in a key-spec list
MaxKeys == 2

ExDocs ==
    { JDict("@odata.id" :> JStr("/s/1") @@ "Id" :> JStr("s1")),
      JDict("@odata" :> JDict("id" :> JStr("nested")) @@ "Id" :> JStr("s2")),
      JDict("@odata.id" :> JStr("/s/3") @@ "@odata" :> JDict("id" :> JStr("nested"))),
      JDict("Id" :> JStr("s4") @@ "Status" :> JDict("Health" :> JStr("OK"))),
      JNull, JList(<<JStr("x")>>), JStr("ab") }

ExNames == {"ref", "id", "h"}

ExPaths == {"@odata.id", "@odata", "Id", "Status.Health"}

ExRecords == {[name |-> n, path |-> p] : n \in ExNames, p \in ExPaths}

ExKeySpecs ==
    {KeyList(items) : items \in SeqsUpTo(ExRecords, MaxKeys)}
        \cup {KeyOne(r.name, r.path) : r \in ExRecords}
        \cup {KeyPath(p) : p \in ExPaths}

InitExtract ==
    /\ exDoc \in ExDocs
    /\ exKeys \in ExKeySpecs
    /\ exResult = JNull
    /\ exPc = "call"
    /\ MainIdle /\ NavIdle /\ ClsIdle /\ NormIdle /\ ProbeIdle

\* one call of extract_data(exDoc, exKeys, skip_parse=True)
ExtractCall ==
    /\ exPc = "call"
    /\ \E res \in {extract_parsed(exDoc, exKeys)} : exResult' = res
    /\ exPc' = "returned"
    /\ UNCHANGED <<exDoc, exKeys>>

NextExtract == ExtractCall /\ UNCHANGED <<mainVars, navVars, clsVars, normVars, probeVars>>

SpecExtract == InitExtract /\ [][NextExtract]_vars

\* the {name, path} records a key spec carries
CarriedRecords(keyspec) ==
    CASE keyspec.kind = "list" -> keyspec.items
      [] keyspec.kind = "dict" -> << [name |-> keyspec.name, path |-> keyspec.path] >>
      [] OTHER -> <<>>

\* no two records of the sequence share a name
DistinctNames(items) ==
    \A i, j \in 1..Len(items) : items[i].name = items[j].name => i = j

\* what a path stands for in a mapping document: the top-level field
\* '@odata.id' for the reserved literal, the dotted traversal otherwise
PathMeaning(doc, path) ==
    IF path = "@odata.id" THEN DictGet(doc.d, "@odata.id")
    ELSE parse_json(doc, SplitOn(path, "."))

\* C11: for a mapping document and a key spec that carries named records
\* (one record, or a sequence of records with distinct names), the result
\* is a mapping with exactly one entry per record, and each entry is the
\* top-level field '@odata.id' when the record's path is that literal and
\* the dotted traversal of the path otherwise.
C11_OdataDirect ==
    (/\ exPc = "returned"
     /\ exKeys.kind \in {"list", "dict"}
     /\ exDoc.t = "dict"
     /\ DistinctNames(CarriedRecords(exKeys)))
    => LET items == CarriedRecords(exKeys)
       IN  /\ exResult # Raised
           /\ DOMAIN exResult = {items[i].name : i \in 1..Len(items)}
           /\ \A i \in 1..Len(items) :
                 exResult[items[i].name] = PathMeaning(exDoc, items[i].path)

-----------------------------------------------------------------------------
(* The HTTP prober (src/prober-kubernetes.py): do_probe and the two        *)
(* Prometheus metrics it updates.  A labelled metric creates the child for *)
(* a label tuple at its first use, so a metric is a function from the      *)
(* label tuples used so far to numbers.                                    *)

\* most do_probe calls in a run
MaxProbes == 3

\* str(n) for a natural number
RECURSIVE StrOfNat(_)
StrOfNat(n) == IF n < 10 THEN Digits[n + 1] ELSE StrOfNat(n \div 10) \o Digits[(n % 10) + 1]

\* what requests.request does: a response with a status code, or an
\* exception (connection error, timeout)
Response(status_code) == [kind |-> "response", status_code |-> status_code]

TransportError == [kind |-> "exception"]

ProbeOutcomes == {Response(200), Response(301), Response(404), Response(500), TransportError}

\* the (scenario, endpoint) pairs the probe functions pass to do_probe
ProbeTargets ==
    { <<"healthcheck", "/healthcheck">>,
      <<"get_teams", "/api/v0/teams">>,
      <<"roster_cycle", "/api/v0/teams/Test Team/rosters/test-roster">>,
      <<"roster_cycle", "/api/v0/teams/Test Team/rosters">> }

\* Response.raise_for_status: HTTPError for a 4xx or 5xx status
RaisesForStatus(r) == 400 <= r.status_code /\ r.status_code < 600

\* metric.labels(...).inc() and metric.labels(...).observe(...), the latter
\* kept as the number of observations
Inc(metric, labels) ==
    (labels :> (IF labels \in DOMAIN metric THEN metric[labels] ELSE 0) + 1) @@ metric

\* the except block: one more observation and one more increment at `code`
ProbeFailed(total, duration, target, code) ==
    [total    |-> Inc(total, <<target[1], target[2], code>>),
     duration |-> Inc(duration, target),
     ended    |-> "raised"]

\* the body of do_probe for one outcome of requests.request
ProbeBody(total, duration, target, outcome) ==
    IF outcome.kind = "exception"
    THEN ProbeFailed(total, duration, target, "exception")
    ELSE LET code == StrOfNat(outcome.status_code)
             d1   == Inc(duration, target)
             t1   == Inc(total, <<target[1], target[2], code>>)
         IN  IF RaisesForStatus(outcome)
             THEN ProbeFailed(t1, d1, target, code)
             ELSE [total |-> t1, duration |-> d1, ended |-> "returned"]

\* one call of do_probe(method, url, scenario, endpoint)
do_probe(target, outcome) ==
    /\ probeCalls < MaxProbes
    /\ \E after \in {ProbeBody(PROBER_TOTAL, PROBER_DURATION, target, outcome)} :
          /\ PROBER_TOTAL' = after.total
          /\ PROBER_DURATION' = after.duration
          /\ probeLast' = [target |-> target, outcome |-> outcome, ended |-> after.ended]
    /\ probeCalls' = probeCalls + 1

InitProbe ==
    /\ ProbeIdle
    /\ MainIdle /\ NavIdle /\ ClsIdle /\ NormIdle /\ ExIdle

NextProbe ==
    \E target \in ProbeTargets, outcome \in ProbeOutcomes :
        do_probe(target, outcome) /\ UNCHANGED <<mainVars, navVars, clsVars, normVars, exVars>>

SpecProbe == InitProbe /\ [][NextProbe]_vars

\* the sum of a metric over the label tuples in S
RECURSIVE SumOver(_, _)
SumOver(metric, S) ==
    IF S = {} THEN 0
    ELSE LET l == CHOOSE x \in S : TRUE
         IN  metric[l] + SumOver(metric, S \ {l})

MetricSum(metric) == SumOver(metric, DOMAIN metric)

\* C13: after any number of do_probe calls, whatever their outcomes, the
\* request counter summed over all labels and the number of duration
\* observations both equal the number of calls made.
C13_CountedOnce ==
    /\ MetricSum(PROBER_TOTAL) = probeCalls
    /\ MetricSum(PROBER_DURATION) = probeCalls

====
